---- MODULE Spec2Model ----
(***************************************************************************)
(* Model of the study-buddy backend: the RAG service (rag_service.py), the *)
(* vector store adapter (vector_store.py), the chunker (text_chunker.py),  *)
(* the ingestion pipeline (pdf_processor.py) and its background driver     *)
(* (main.py).                                                              *)
(*                                                                         *)
(* Strings are sequences of tokens, so that concatenation, joining and     *)
(* emptiness are computed and not assumed.  Python's None is the empty     *)
(* sequence <<>> and a present value v is <<v>>.                           *)
(***************************************************************************)
EXTENDS Integers, Sequences, FiniteSets, TLC

VARIABLES
    \* ---- RAG service: one generate_answer call and one generate_answer_stream
    \* ---- call on the same arguments
    query,                 \* argument query
    context_chunks,        \* argument context_chunks
    conversation_history,  \* argument conversation_history
    llmFragments,          \* the generation stub: the fragments it produces
    bpc,                   \* generate_answer: "idle" | "done" | "raised"
    bsent,                 \* messages generate_answer handed to llm.invoke
    bresult,               \* value returned by generate_answer
    spc,                   \* generate_answer_stream: "idle" | "streaming" | "done" | "raised"
    ssent,                 \* messages generate_answer_stream handed to llm.stream
    ssources,              \* local variable sources of generate_answer_stream
    spos,                  \* number of LLM fragments consumed so far
    yielded,               \* elements yielded so far
    \* ---- vector store (the ChromaDB client behind VectorStore) and uploads dir
    collections,           \* names of the collections that exist
    index,                 \* collection name -> set of stored passages
    files,                 \* names of the files present in Config.UPLOADS_PATH
    last,                  \* record of the most recent store/processor call
    \* ---- chunker: one chunk_pages call followed by add_documents
    cpages,                \* argument pages
    cchunks,               \* value returned by chunk_pages
    cpc,                   \* "idle" | "chunked" | "stored" | "raised"
    \* ---- ingestion: upload_document, process_pdf_background, process_pdf
    tpc,                   \* task -> position in process_pdf_background / process_pdf
    tdoc,                  \* task -> document_id (uuid4 drawn by upload_document)
    tpdf,                  \* task -> the uploaded PDF
    tstage,                \* task -> ProcessingProgress.current_stage
    status,                \* task -> processing_status[task_id]
    tfailedAt,             \* task -> the step of process_pdf that raised, "" if none
    tindexed,              \* task -> add_documents has returned for this execution
    twrote                 \* task -> this execution created the archive file

ragVars == <<query, context_chunks, conversation_history, llmFragments,
             bpc, bsent, bresult, spc, ssent, ssources, spos, yielded>>

storeVars == <<collections, index, files, last>>

chunkVars == <<cpages, cchunks, cpc>>

taskVars == <<tpc, tdoc, tpdf, tstage, status, tfailedAt, tindexed, twrote>>

vars == <<ragVars, storeVars, chunkVars, taskVars>>

nonRagVars == <<storeVars, chunkVars, taskVars>>

\* ------------------------------------------------------------------ bounds
MaxChunks == 3
MaxFrags == 2
MaxHist == 7
MaxN == 2
MaxPages == 3

\* --------------------------------------------------------- program constants
\* conversation_history[-6:]
HistoryWindow == 6

\* ------------------------------------------------------------------ helpers
None == <<>>

CollNames == {"documents", "other"}

\* the value of last before any call
NoCall ==
    [op |-> "none", coll |-> "", doc |-> "", filter |-> None, n |-> 0,
     raised |-> FALSE, failed |-> FALSE, out |-> <<>>, existed |-> FALSE,
     removed |-> {}, added |-> {}, created |-> {},
     filesRemoved |-> {}, filesAdded |-> {}, after |-> <<>>]

\* the state of a fresh installation: no collection, empty uploads directory
StoreEmpty ==
    /\ collections = {}
    /\ index = [c \in CollNames |-> {}]
    /\ files = {}
    /\ last = NoCall

ChunkerIdle ==
    /\ cpages = <<>>
    /\ cchunks = <<>>
    /\ cpc = "idle"

Tasks == {"t1", "t2"}

\* no upload has been made: processing_status = {}
NoTasks ==
    /\ tpc = [t \in Tasks |-> "new"]
    /\ tdoc = [t \in Tasks |-> ""]
    /\ tpdf = [t \in Tasks |-> <<>>]
    /\ tstage = [t \in Tasks |-> 0]
    /\ status = [t \in Tasks |-> <<>>]
    /\ tfailedAt = [t \in Tasks |-> ""]
    /\ tindexed = [t \in Tasks |-> FALSE]
    /\ twrote = [t \in Tasks |-> FALSE]

Some(v) == <<v>>

\* Python truthiness of an Optional[int] (None and 0 are falsy)
Truthy(v) == v # None /\ v # Some(0)

RECURSIVE Flatten(_)
\* "".join(parts)
Flatten(parts) ==
    IF parts = <<>> THEN <<>> ELSE Head(parts) \o Flatten(Tail(parts))

RECURSIVE Join(_, _)
\* sep.join(parts)
Join(sep, parts) ==
    IF parts = <<>> THEN <<>>
    ELSE IF Len(parts) = 1 THEN parts[1]
    ELSE parts[1] \o sep \o Join(sep, Tail(parts))

\* seq[-n:]
LastN(seq, n) ==
    IF Len(seq) <= n THEN seq ELSE SubSeq(seq, Len(seq) - n + 1, Len(seq))

RECURSIVE SeqsUpTo(_, _)
\* all sequences over S of length at most n
SeqsUpTo(S, n) ==
    IF n = 0 THEN {<<>>}
    ELSE LET shorter == SeqsUpTo(S, n - 1)
         IN  shorter \cup {Append(s, x) : s \in shorter, x \in S}

\* ---------------------------------------------------------------- RAG service
Docs == {"d1", "d2"}

\* filename metadata of a document
FilenameOf(d) == d \o ".pdf"

SystemPrompt == <<"You are a helpful AI study assistant.">>

NoContext == <<"No relevant context found in the documents.">>

\* str(page_number) inside the f-string: None prints as "None"
PageStr(p) == IF p = None THEN "None" ELSE ToString(p[1])

\* mutant: no sentinel, an empty chunk list gives an empty context
FormatContextNoSentinel(chunks) ==
    Join(<<"\n\n---\n\n">>,
         [i \in 1..Len(chunks) |->
             <<"[Source ", ToString(i), " - ", chunks[i].filename,
               ", Page ", PageStr(chunks[i].page_number), "]\n">>
             \o chunks[i].text])

\* format_context: labelled blocks joined by a visible delimiter
FormatContext(chunks) ==
    IF chunks = <<>> THEN NoContext
    ELSE Join(<<"\n\n---\n\n">>,
              [i \in 1..Len(chunks) |->
                  <<"[Source ", ToString(i), " - ", chunks[i].filename,
                    ", Page ", PageStr(chunks[i].page_number), "]\n">>
                  \o chunks[i].text])

\* the prompt f-string of generate_answer and generate_answer_stream
Prompt(context, q) ==
    <<"Context from documents:\n\n">> \o context
    \o <<"\n\n---\n\nQuestion: ">> \o q
    \o <<"\n\nAnswer the question based on the context above.">>

RECURSIVE AppendHistory(_, _)
\* the loop over conversation_history[-6:]: user -> HumanMessage,
\* assistant -> AIMessage, any other role is skipped
AppendHistory(messages, rest) ==
    IF rest = <<>> THEN messages
    ELSE LET msg == Head(rest)
         IN  IF msg.role = "user"
             THEN AppendHistory(Append(messages, [role |-> "human", content |-> msg.content]), Tail(rest))
             ELSE IF msg.role = "assistant"
             THEN AppendHistory(Append(messages, [role |-> "ai", content |-> msg.content]), Tail(rest))
             ELSE AppendHistory(messages, Tail(rest))

\* mutant: the history is not truncated
BuildMessagesNoTruncate(q, chunks, history) ==
    Append(AppendHistory(<<[role |-> "system", content |-> SystemPrompt]>>, history),
           [role |-> "human", content |-> Prompt(FormatContext(chunks), q)])

\* generate_answer: the message list handed to llm.invoke
BuildMessages(q, chunks, history) ==
    LET messages == <<[role |-> "system", content |-> SystemPrompt]>>
        withHistory == IF history # <<>>
                       THEN AppendHistory(messages, LastN(history, HistoryWindow))
                       ELSE messages
    IN  Append(withHistory, [role |-> "human", content |-> Prompt(FormatContext(chunks), q)])

\* generate_answer_stream: the message list handed to llm.stream
StreamMessages(q, chunks, history) ==
    LET messages == <<[role |-> "system", content |-> SystemPrompt]>>
        withHistory == IF history # <<>>
                       THEN AppendHistory(messages, LastN(history, HistoryWindow))
                       ELSE messages
    IN  Append(withHistory, [role |-> "human", content |-> Prompt(FormatContext(chunks), q)])

\* the dict appended to sources for one chunk
SourceEntry(chunk) ==
    [document_id |-> chunk.document_id, filename |-> chunk.filename,
     page_number |-> chunk.page_number, similarity |-> chunk.similarity]

\* key = (chunk.get("document_id"), chunk.get("page_number"))
SourceKey(chunk) == <<chunk.document_id, chunk.page_number>>

RECURSIVE SourcesLoop(_, _, _)
\* the for-loop over context_chunks with its seen set
SourcesLoop(rest, seen, sources) ==
    IF rest = <<>> THEN sources
    ELSE LET chunk == Head(rest)
             key == SourceKey(chunk)
         IN  IF key \notin seen /\ Truthy(chunk.page_number)
             THEN SourcesLoop(Tail(rest), seen \cup {key}, Append(sources, SourceEntry(chunk)))
             ELSE SourcesLoop(Tail(rest), seen, sources)

RECURSIVE SourcesLoopNoSeen(_, _, _)
\* the same loop without the membership test on seen
SourcesLoopNoSeen(rest, seen, sources) ==
    IF rest = <<>> THEN sources
    ELSE LET chunk == Head(rest)
         IN  IF Truthy(chunk.page_number)
             THEN SourcesLoopNoSeen(Tail(rest), seen, Append(sources, SourceEntry(chunk)))
             ELSE SourcesLoopNoSeen(Tail(rest), seen, sources)

\* mutant: no deduplication of (document_id, page_number)
ExtractSourcesNoDedup(chunks) == SourcesLoopNoSeen(chunks, {}, <<>>)

\* generate_answer: "Extract sources (unique page numbers)"
ExtractSources(chunks) == SourcesLoop(chunks, {}, <<>>)

\* generate_answer_stream: "Extract sources (unique page numbers)"
StreamSources(chunks) == SourcesLoop(chunks, {}, <<>>)

\* the deterministic generation stub, streaming mode: its fragments in order
LLMStream(messages) == llmFragments

\* the deterministic generation stub, blocking mode: the whole completion
LLMInvoke(messages) == Flatten(LLMStream(messages))

\* generate_answer returns normally
GenerateAnswer ==
    /\ bpc = "idle"
    /\ bsent' = BuildMessages(query, context_chunks, conversation_history)
    /\ bresult' = [answer |-> LLMInvoke(bsent'),
                   sources |-> ExtractSources(context_chunks),
                   context_used |-> Len(context_chunks)]
    /\ bpc' = "done"
    /\ UNCHANGED nonRagVars
    /\ UNCHANGED <<query, context_chunks, conversation_history, llmFragments,
                   spc, ssent, ssources, spos, yielded>>

\* generate_answer: llm.invoke raises, nothing is returned
GenerateAnswerFails ==
    /\ bpc = "idle"
    /\ bsent' = BuildMessages(query, context_chunks, conversation_history)
    /\ bpc' = "raised"
    /\ UNCHANGED nonRagVars
    /\ UNCHANGED <<query, context_chunks, conversation_history, llmFragments,
                   bresult, spc, ssent, ssources, spos, yielded>>

\* generate_answer_stream up to the call of llm.stream (runs on the first next())
StreamStart ==
    /\ spc = "idle"
    /\ ssent' = StreamMessages(query, context_chunks, conversation_history)
    /\ ssources' = StreamSources(context_chunks)
    /\ spos' = 0
    /\ spc' = "streaming"
    /\ UNCHANGED nonRagVars
    /\ UNCHANGED <<query, context_chunks, conversation_history, llmFragments,
                   bpc, bsent, bresult, yielded>>

\* mutant: every fragment is yielded except the first one
StreamFragmentSkipFirst ==
    /\ spc = "streaming"
    /\ spos < Len(LLMStream(ssent))
    /\ LET chunk == LLMStream(ssent)[spos + 1]
       IN  yielded' = IF chunk # <<>> /\ spos > 0
                      THEN Append(yielded, [type |-> "content", data |-> chunk])
                      ELSE yielded
    /\ spos' = spos + 1
    /\ UNCHANGED nonRagVars
    /\ UNCHANGED <<query, context_chunks, conversation_history, llmFragments,
                   bpc, bsent, bresult, spc, ssent, ssources>>

\* one iteration of "for chunk in self.llm.stream(messages)"
StreamFragment ==
    /\ spc = "streaming"
    /\ spos < Len(LLMStream(ssent))
    /\ LET chunk == LLMStream(ssent)[spos + 1]
       IN  yielded' = IF chunk # <<>>
                      THEN Append(yielded, [type |-> "content", data |-> chunk])
                      ELSE yielded
    /\ spos' = spos + 1
    /\ UNCHANGED nonRagVars
    /\ UNCHANGED <<query, context_chunks, conversation_history, llmFragments,
                   bpc, bsent, bresult, spc, ssent, ssources>>

\* llm.stream raises while the generator is being consumed
StreamFails ==
    /\ spc = "streaming"
    /\ spc' = "raised"
    /\ UNCHANGED nonRagVars
    /\ UNCHANGED <<query, context_chunks, conversation_history, llmFragments,
                   bpc, bsent, bresult, ssent, ssources, spos, yielded>>

\* mutant: the sources element is only sent when there are sources
StreamFinishIfSources ==
    /\ spc = "streaming"
    /\ spos = Len(LLMStream(ssent))
    /\ yielded' = IF ssources # <<>>
                  THEN Append(yielded, [type |-> "sources",
                                        data |-> [sources |-> ssources,
                                                  context_used |-> Len(context_chunks)]])
                  ELSE yielded
    /\ spc' = "done"
    /\ UNCHANGED nonRagVars
    /\ UNCHANGED <<query, context_chunks, conversation_history, llmFragments,
                   bpc, bsent, bresult, ssent, ssources, spos>>

\* the LLM stream is exhausted: "Send sources at the end", then the generator ends
StreamFinish ==
    /\ spc = "streaming"
    /\ spos = Len(LLMStream(ssent))
    /\ yielded' = Append(yielded, [type |-> "sources",
                                   data |-> [sources |-> ssources,
                                             context_used |-> Len(context_chunks)]])
    /\ spc' = "done"
    /\ UNCHANGED nonRagVars
    /\ UNCHANGED <<query, context_chunks, conversation_history, llmFragments,
                   bpc, bsent, bresult, ssent, ssources, spos>>

\* ---- inputs of the RAG specifications
Pages == {None, Some(1), Some(2)}

\* retrieved chunks: in retrieval order, so similarity decreases with the position
ChunksOf(keys) ==
    [i \in 1..Len(keys) |->
        [text |-> <<"text", ToString(i)>>,
         page_number |-> keys[i][2],
         document_id |-> keys[i][1],
         filename |-> FilenameOf(keys[i][1]),
         similarity |-> 100 - 10 * i]]

Fragments == {<<>>, <<"a">>, <<"b">>}

Roles == {"user", "assistant"}

\* a caller-supplied history: message i has content <<"m", i>>
HistoryOf(roles) ==
    [i \in 1..Len(roles) |-> [role |-> roles[i], content |-> <<"m", ToString(i)>>]]

RagIdle ==
    /\ bpc = "idle"
    /\ bsent = <<>>
    /\ bresult = [answer |-> <<>>, sources |-> <<>>, context_used |-> 0]
    /\ spc = "idle"
    /\ ssent = <<>>
    /\ ssources = <<>>
    /\ spos = 0
    /\ yielded = <<>>

\* inputs that vary the retrieved chunks and the generation stub
InitStream ==
    /\ query = <<"q">>
    /\ context_chunks \in {ChunksOf(k) : k \in SeqsUpTo(Docs \X Pages, MaxChunks)}
    /\ conversation_history = HistoryOf(<<"user", "assistant">>)
    /\ llmFragments \in SeqsUpTo(Fragments, MaxFrags)
    /\ RagIdle
    /\ StoreEmpty
    /\ ChunkerIdle
    /\ NoTasks

\* inputs that vary the conversation history
InitMessages ==
    /\ query = <<"q">>
    /\ context_chunks \in {ChunksOf(k) : k \in SeqsUpTo(Docs \X Pages, 1)}
    /\ conversation_history \in {HistoryOf(r) : r \in SeqsUpTo(Roles, MaxHist)}
    /\ llmFragments \in {<<>>, <<<<"a">>>>}
    /\ RagIdle
    /\ StoreEmpty
    /\ ChunkerIdle
    /\ NoTasks

\* -------------------------------------------------------------------- chunker
\* Config.CHUNK_SIZE and Config.CHUNK_OVERLAP, scaled 200:1 (one model character
\* stands for 200 characters of page text)
CHUNK_SIZE == 5

CHUNK_OVERLAP == 1

\* separators=["\n\n", "\n", " ", ""]
Separators == << <<"\n", "\n">>, <<"\n">>, <<" ">>, <<>> >>

Whitespace == {" ", "\n"}

RECURSIVE LStrip(_)
LStrip(text) ==
    IF text # <<>> /\ Head(text) \in Whitespace THEN LStrip(Tail(text)) ELSE text

RECURSIVE RStrip(_)
RStrip(text) ==
    IF text # <<>> /\ text[Len(text)] \in Whitespace
    THEN RStrip(SubSeq(text, 1, Len(text) - 1))
    ELSE text

\* str.strip()
Strip(text) == RStrip(LStrip(text))

IsPrefix(sep, text) ==
    Len(sep) <= Len(text) /\ SubSeq(text, 1, Len(sep)) = sep

RECURSIVE Contains(_, _)
\* re.search(separator, text)
Contains(text, sep) ==
    IF Len(text) < Len(sep) THEN FALSE
    ELSE IsPrefix(sep, text) \/ Contains(Tail(text), sep)

NonEmpty(piece) == IF piece = <<>> THEN <<>> ELSE <<piece>>

RECURSIVE SplitKeep(_, _, _, _)
\* re.split on the separator, each separator kept at the start of the piece that
\* follows it, empty pieces dropped
SplitKeep(rest, sep, cur, acc) ==
    IF rest = <<>> THEN acc \o NonEmpty(cur)
    ELSE IF IsPrefix(sep, rest)
    THEN SplitKeep(SubSeq(rest, Len(sep) + 1, Len(rest)), sep, sep, acc \o NonEmpty(cur))
    ELSE SplitKeep(Tail(rest), sep, Append(cur, Head(rest)), acc)

\* _split_text_with_regex with keep_separator; the separator "" gives list(text)
SplitWith(text, sep) ==
    IF sep = <<>> THEN [i \in 1..Len(text) |-> <<text[i]>>]
    ELSE SplitKeep(text, sep, <<>>, <<>>)

\* mutant: the joined pieces are not stripped
JoinDocsNoStrip(current) == NonEmpty(Flatten(current))

\* _join_docs: the joined pieces, stripped; nothing when that is empty
JoinDocs(current) == NonEmpty(Strip(Flatten(current)))

TotalLen(current) == Len(Flatten(current))

RECURSIVE DropForOverlap(_, _)
\* the while loop of _merge_splits: drop leading pieces until the kept tail fits
\* the overlap and leaves room for the next piece of length n
DropForOverlap(current, n) ==
    LET total == TotalLen(current)
    IN  IF total > CHUNK_OVERLAP \/ (total + n > CHUNK_SIZE /\ total > 0)
        THEN DropForOverlap(Tail(current), n)
        ELSE current

RECURSIVE MergeLoop(_, _, _)
MergeLoop(splits, current, docs) ==
    IF splits = <<>> THEN docs \o JoinDocs(current)
    ELSE LET d == Head(splits)
         IN  IF TotalLen(current) + Len(d) > CHUNK_SIZE /\ current # <<>>
             THEN MergeLoop(Tail(splits),
                            Append(DropForOverlap(current, Len(d)), d),
                            docs \o JoinDocs(current))
             ELSE MergeLoop(Tail(splits), Append(current, d), docs)

\* _merge_splits with the empty separator (the separators are kept in the pieces)
MergeSplits(splits) == MergeLoop(splits, <<>>, <<>>)

\* the first separator that is "" or occurs in the text, as an index
PickSeparator(text, seps) ==
    CHOOSE i \in 1..Len(seps) :
        /\ seps[i] = <<>> \/ Contains(text, seps[i])
        /\ \A j \in 1..(i - 1) : seps[j] # <<>> /\ ~Contains(text, seps[j])

RECURSIVE SplitRec(_, _)
RECURSIVE SplitLoop(_, _, _, _)
\* the loop of _split_text over the pieces: short pieces are collected and merged,
\* a long piece is split with the remaining separators
SplitLoop(splits, newSeps, good, final) ==
    IF splits = <<>> THEN final \o MergeSplits(good)
    ELSE LET piece == Head(splits)
         IN  IF Len(piece) < CHUNK_SIZE
             THEN SplitLoop(Tail(splits), newSeps, Append(good, piece), final)
             ELSE SplitLoop(Tail(splits), newSeps, <<>>,
                            final \o MergeSplits(good)
                                  \o (IF newSeps = <<>> THEN <<piece>>
                                      ELSE SplitRec(piece, newSeps)))

\* RecursiveCharacterTextSplitter._split_text
SplitRec(text, seps) ==
    LET i == PickSeparator(text, seps)
        newSeps == IF seps[i] = <<>> THEN <<>> ELSE SubSeq(seps, i + 1, Len(seps))
    IN  SplitLoop(SplitWith(text, seps[i]), newSeps, <<>>, <<>>)

\* self.text_splitter.split_text(page_text)
SplitText(text) == SplitRec(text, Separators)

\* {**a, **b}: the keys of b win
Merged(a, b) == b @@ a

RECURSIVE PiecesLoop(_, _, _, _, _)
\* the inner loop "for chunk in chunks" of chunk_pages
PiecesLoop(pieces, page_number, doc_metadata, chunk_id, all_chunks) ==
    IF pieces = <<>> THEN all_chunks
    ELSE PiecesLoop(Tail(pieces), page_number, doc_metadata, chunk_id + 1,
                    Append(all_chunks,
                           [text |-> Head(pieces),
                            metadata |-> Merged([page_number |-> page_number,
                                                 chunk_id |-> chunk_id],
                                                doc_metadata)]))

RECURSIVE PagesLoopResetPerPage(_, _, _, _)
\* mutant: the counter restarts at 0 on every page
PagesLoopResetPerPage(pages, doc_metadata, chunk_id, all_chunks) ==
    IF pages = <<>> THEN all_chunks
    ELSE PagesLoopResetPerPage(Tail(pages), doc_metadata, 0,
             PiecesLoop(SplitText(Head(pages).text), Head(pages).page_number,
                        doc_metadata, 0, all_chunks))

RECURSIVE PagesLoop(_, _, _, _)
\* the outer loop "for page in pages" of chunk_pages; chunk_id runs on across pages
PagesLoop(pages, doc_metadata, chunk_id, all_chunks) ==
    IF pages = <<>> THEN all_chunks
    ELSE LET pieces == SplitText(Head(pages).text)
         IN  PagesLoop(Tail(pages), doc_metadata, chunk_id + Len(pieces),
                       PiecesLoop(pieces, Head(pages).page_number,
                                  doc_metadata, chunk_id, all_chunks))

\* mutant: chunk_id counts within the page
ChunkPagesResetPerPage(pages, doc_metadata) == PagesLoopResetPerPage(pages, doc_metadata, 0, <<>>)

\* TextChunker.chunk_pages
ChunkPages(pages, doc_metadata) == PagesLoop(pages, doc_metadata, 0, <<>>)

\* mutant: the id does not carry the document_id
ChunkIdOfPosition(d, i) == "chunk_" \o ToString(i)

\* --------------------------------------------------------------- vector store
\* chunk_id = f"{document_id}_chunk_{i}"
ChunkIdOf(d, i) == d \o "_chunk_" \o ToString(i)

\* mutant: the stored position is the position within the page's own pieces
PassageOfPageLocal(chunks, d, pos) ==
    LET i == Cardinality({j \in 1..(pos - 1) :
                  chunks[j].metadata.page_number = chunks[pos].metadata.page_number})
    IN  [id |-> ChunkIdOf(d, i),
         document |-> chunks[pos].text,
         metadata |-> Merged(chunks[pos].metadata,
                             [document_id |-> d, chunk_index |-> i])]

\* one iteration of the enumerate loop of add_documents (i = pos - 1)
PassageOf(chunks, d, pos) ==
    [id |-> ChunkIdOf(d, pos - 1),
     document |-> chunks[pos].text,
     metadata |-> Merged(chunks[pos].metadata,
                         [document_id |-> d, chunk_index |-> pos - 1])]

\* ids, documents and metadatas handed to collection.add
PassagesOf(chunks, d) == {PassageOf(chunks, d, pos) : pos \in 1..Len(chunks)}

\* mutant: collection.upsert, a record whose id is already stored is replaced
AfterAddUpsert(stored, passages) ==
    {q \in stored : \A p \in passages : p.id # q.id} \cup passages

\* collection.add: a record whose id is already stored is left as it is
AfterAdd(stored, passages) ==
    stored \cup {p \in passages : \A q \in stored : q.id # p.id}

\* collection.add raises: an empty batch is rejected, or the index fails
AddRaises(chunks, fail) == chunks = <<>> \/ fail

\* collection.delete(where={"document_id": document_id})
AfterDelete(stored, d) == {p \in stored : p.metadata.document_id # d}

\* where=filter_dict: exact match on metadata, no filter when None
Matches(p, filter) == filter = None \/ p.metadata.document_id = filter[1]

\* cosine distance of the stub index, in hundredths
Distance(q, text) == IF text = q THEN 0 ELSE 100

RECURSIVE Nearest(_, _, _)
\* the n nearest candidates by ascending distance (ties in any order)
Nearest(cands, q, n) ==
    IF n = 0 \/ cands = {} THEN {<<>>}
    ELSE LET best == {p \in cands :
                        \A r \in cands : Distance(q, p.document) <= Distance(q, r.document)}
         IN  UNION {{<<p>> \o rest : rest \in Nearest(cands \ {p}, q, n - 1)} : p \in best}

\* the dict returned by VectorStore.query for a result list
QueryResult(q, res) ==
    [documents |-> [i \in 1..Len(res) |-> res[i].document],
     metadatas |-> [i \in 1..Len(res) |-> res[i].metadata],
     distances |-> [i \in 1..Len(res) |-> Distance(q, res[i].document)],
     ids |-> [i \in 1..Len(res) |-> res[i].id]]

EmptyResult == [documents |-> <<>>, metadatas |-> <<>>, distances |-> <<>>, ids |-> <<>>]

Stored(ix) == UNION {{<<c, p>> : p \in ix[c]} : c \in CollNames}

\* what a query or a deletion remembers of the call just before it, when that
\* call was a deletion
Brief(l) ==
    IF l.op \in {"vs_delete_document", "delete_document"}
    THEN [op |-> l.op, coll |-> l.coll, doc |-> l.doc, failed |-> l.failed,
          nremoved |-> Cardinality(l.removed), nfiles |-> Cardinality(l.filesRemoved)]
    ELSE [op |-> "other", coll |-> "", doc |-> "", failed |-> FALSE,
          nremoved |-> 0, nfiles |-> 0]

\* the record of a call: its arguments, its outcome and what it changed
Call(op, c, d, filter, n, raised, failed, out) ==
    [op |-> op, coll |-> c, doc |-> d, filter |-> filter, n |-> n,
     raised |-> raised, failed |-> failed, out |-> out,
     existed |-> c \in collections,
     removed |-> Stored(index) \ Stored(index'),
     added |-> Stored(index') \ Stored(index),
     created |-> collections' \ collections,
     filesRemoved |-> files \ files',
     filesAdded |-> files' \ files,
     after |-> IF op \in {"query", "delete_document"} THEN Brief(last) ELSE <<>>]

\* VectorStore.add_documents(collection_name, chunks, document_id)
VS_AddDocuments(c, chunks, d, fail) ==
    /\ collections' = collections \cup {c}
    /\ index' = IF AddRaises(chunks, fail) THEN index
                ELSE [index EXCEPT ![c] = AfterAdd(@, PassagesOf(chunks, d))]
    /\ files' = files
    /\ last' = Call("add_documents", c, d, None, 0, AddRaises(chunks, fail), fail, <<>>)

\* mutant: the where clause is dropped, every passage of the collection goes
VS_DeleteDocumentAll(c, d, fail) ==
    /\ collections' = collections
    /\ index' = IF c \in collections /\ ~fail
                THEN [index EXCEPT ![c] = {}]
                ELSE index
    /\ files' = files
    /\ last' = Call("vs_delete_document", c, d, None, 0, FALSE, c \in collections /\ fail, <<>>)

\* VectorStore.delete_document(collection_name, document_id): a missing collection
\* and a failing collection.delete are both swallowed by the except clause
VS_DeleteDocument(c, d, fail) ==
    /\ collections' = collections
    /\ index' = IF c \in collections /\ ~fail
                THEN [index EXCEPT ![c] = AfterDelete(@, d)]
                ELSE index
    /\ files' = files
    /\ last' = Call("vs_delete_document", c, d, None, 0, FALSE, c \in collections /\ fail, <<>>)

\* mutant: the collection is fetched with get_or_create_collection
VS_QueryCreating(c, q, n, filter, fail) ==
    /\ collections' = collections \cup {c}
    /\ index' = index
    /\ files' = files
    /\ \E res \in Nearest({p \in index[c] : Matches(p, filter)}, q, n) :
          last' = Call("query", c, "", filter, n, fail, fail,
                       IF fail THEN <<>> ELSE QueryResult(q, res))

\* VectorStore.query(collection_name, query_text, n_results, filter_dict)
VS_Query(c, q, n, filter, fail) ==
    /\ collections' = collections
    /\ index' = index
    /\ files' = files
    /\ IF c \notin collections
       THEN last' = Call("query", c, "", filter, n, FALSE, FALSE, EmptyResult)
       ELSE IF fail
       THEN last' = Call("query", c, "", filter, n, TRUE, TRUE, <<>>)
       ELSE \E res \in Nearest({p \in index[c] : Matches(p, filter)}, q, n) :
               last' = Call("query", c, "", filter, n, FALSE, FALSE, QueryResult(q, res))

\* VectorStore.get_collection_count(collection_name)
VS_Count(c, fail) ==
    /\ collections' = collections
    /\ index' = index
    /\ files' = files
    /\ last' = Call("count", c, "", None, 0, FALSE, c \in collections /\ fail,
                    IF c \in collections /\ ~fail THEN Cardinality(index[c]) ELSE 0)

\* ---- inputs of the store and chunker specifications
\* page texts: empty, short, whitespace only, with spaces, longer than CHUNK_SIZE
PageTexts ==
    {<<>>, <<"a">>, <<" ", " ">>,
     <<" ", "a", "a", " ", "b">>,
     <<"a", "a", " ", "b", "b", " ", "c", "c">>,
     <<"a", "a", "a", "a", "a", "a", "a">>}

\* pages as PDFParser.extract_text builds them: page_number = page_num + 1
PagesOf(texts) == [i \in 1..Len(texts) |-> [page_number |-> i, text |-> texts[i]]]

\* doc_metadata as process_pdf builds it
DocMetadata(d, name, title, num_pages) ==
    [document_id |-> d, filename |-> name, title |-> title, num_pages |-> num_pages]

\* chunk lists handed to add_documents: an empty one, and two pages of one chunk each
StoreChunkLists(d) ==
    {ChunkPages(PagesOf(t), DocMetadata(d, FilenameOf(d), "", Len(t))) :
        t \in {<<>>, <<<<"a">>, <<"b">>>>}}

QueryTexts == {<<"a">>}

AddDocuments ==
    /\ \E c \in CollNames, d \in Docs, fail \in BOOLEAN :
          \E chunks \in StoreChunkLists(d) : VS_AddDocuments(c, chunks, d, fail)
    /\ UNCHANGED <<ragVars, chunkVars, taskVars>>

DeleteDocumentVS ==
    /\ \E c \in CollNames, d \in Docs, fail \in BOOLEAN : VS_DeleteDocument(c, d, fail)
    /\ UNCHANGED <<ragVars, chunkVars, taskVars>>

Query ==
    /\ \E c \in CollNames, q \in QueryTexts, n \in 1..MaxN, fail \in BOOLEAN :
          \E filter \in {None} \cup {Some(d) : d \in Docs} : VS_Query(c, q, n, filter, fail)
    /\ UNCHANGED <<ragVars, chunkVars, taskVars>>

Count ==
    /\ \E c \in CollNames, fail \in BOOLEAN : VS_Count(c, fail)
    /\ UNCHANGED <<ragVars, chunkVars, taskVars>>

\* chunk_pages(pages, doc_metadata) on the pages of one document
DoChunkPages ==
    /\ cpc = "idle"
    /\ \E d \in Docs :
          cchunks' = ChunkPages(cpages, DocMetadata(d, FilenameOf(d), "", Len(cpages)))
    /\ cpc' = "chunked"
    /\ UNCHANGED <<cpages, ragVars, storeVars, taskVars>>

\* add_documents(collection_name, chunks, document_id) on the chunks just built
StoreChunks ==
    /\ cpc = "chunked"
    /\ cchunks # <<>> => \E c \in CollNames, fail \in BOOLEAN :
          /\ VS_AddDocuments(c, cchunks, cchunks[1].metadata.document_id, fail)
          /\ cpc' = IF fail THEN "raised" ELSE "stored"
    /\ cchunks = <<>> => \E c \in CollNames :
          /\ VS_AddDocuments(c, cchunks, "d1", FALSE)
          /\ cpc' = "raised"
    /\ UNCHANGED <<cpages, cchunks, ragVars, taskVars>>

\* the RAG variables of a specification that makes no RAG call
RagUnused ==
    /\ query = <<>>
    /\ context_chunks = <<>>
    /\ conversation_history = <<>>
    /\ llmFragments = <<>>
    /\ RagIdle

InitStore ==
    /\ RagUnused
    /\ StoreEmpty
    /\ ChunkerIdle
    /\ NoTasks

NextStore ==
    \/ AddDocuments
    \/ DeleteDocumentVS
    \/ Query
    \/ Count

SpecStore == InitStore /\ [][NextStore]_vars

InitChunk ==
    /\ RagUnused
    /\ StoreEmpty
    /\ cpages \in {PagesOf(t) : t \in SeqsUpTo(PageTexts, MaxPages)}
    /\ cchunks = <<>>
    /\ cpc = "idle"
    /\ NoTasks

NextChunk ==
    \/ DoChunkPages
    \/ StoreChunks

SpecChunk == InitChunk /\ [][NextChunk]_vars

\* ------------------------------------------------------------ repeated ingestion
\* page texts of the files ingested under one document_id: two pages of one
\* passage each, one page with another text, one page with no text
ReingestTexts == {<<<<"a">>, <<"b">>>>, <<<<"b">>>>, <<<<" ">>>>}

\* steps 2 and 3 of process_pdf(pdf_path, document_id) for a given document_id:
\* chunk_pages on the extracted pages, then add_documents on the default collection
ChunkAndIndex ==
    /\ \E d \in Docs, texts \in ReingestTexts, fail \in BOOLEAN :
          LET chunks == ChunkPages(PagesOf(texts),
                                   DocMetadata(d, FilenameOf(d), "", Len(texts)))
          IN  /\ cpages' = PagesOf(texts)
              /\ cchunks' = chunks
              /\ cpc' = IF AddRaises(chunks, fail) THEN "raised" ELSE "stored"
              /\ VS_AddDocuments("documents", chunks, d, fail)
    /\ UNCHANGED <<ragVars, taskVars>>

InitReingest ==
    /\ RagUnused
    /\ StoreEmpty
    /\ ChunkerIdle
    /\ NoTasks

NextReingest ==
    \/ ChunkAndIndex
    \/ DeleteDocumentVS
    \/ Count

SpecReingest == InitReingest /\ [][NextReingest]_vars

\* ------------------------------------------------------------ chat and chat_stream
\* metadata.get(key): None when the key is missing
MetaGet(metadata, key) ==
    IF key \in DOMAIN metadata THEN Some(metadata[key]) ELSE None

\* retrieve_context: "Format results", similarity = 1 - distance (in hundredths)
ContextOf(results) ==
    [i \in 1..Len(results.documents) |->
        [text |-> results.documents[i],
         page_number |-> MetaGet(results.metadatas[i], "page_number"),
         document_id |-> results.metadatas[i].document_id,
         filename |-> results.metadatas[i].filename,
         similarity |-> 100 - results.distances[i]]]

\* retrieve_context(query, collection_name, n_results, document_id): the filter is
\* built only for a truthy document_id, and an exception of query is not caught
RetrieveContext(c, n, document_id, fail) ==
    /\ VS_Query(c, query, n, IF document_id # None THEN document_id ELSE None, fail)
    /\ context_chunks' = IF last'.raised THEN context_chunks ELSE ContextOf(last'.out)

\* chat, step 1
ChatRetrieve ==
    /\ bpc = "retrieve"
    /\ \E c \in CollNames, n \in 1..MaxN, fail \in BOOLEAN :
          \E document_id \in {None} \cup {Some(d) : d \in Docs} :
             RetrieveContext(c, n, document_id, fail)
    /\ bpc' = IF last'.raised THEN "retrieval_raised" ELSE "idle"
    /\ UNCHANGED <<query, conversation_history, llmFragments, bsent, bresult,
                   spc, ssent, ssources, spos, yielded, chunkVars, taskVars>>

\* chat_stream, step 1 (runs on the first next() of the generator)
ChatStreamRetrieve ==
    /\ spc = "retrieve"
    /\ \E c \in CollNames, n \in 1..MaxN, fail \in BOOLEAN :
          \E document_id \in {None} \cup {Some(d) : d \in Docs} :
             RetrieveContext(c, n, document_id, fail)
    /\ spc' = IF last'.raised THEN "retrieval_raised" ELSE "idle"
    /\ UNCHANGED <<query, conversation_history, llmFragments, bpc, bsent, bresult,
                   ssent, ssources, spos, yielded, chunkVars, taskVars>>

\* documents are indexed before the chat request arrives
IndexBeforeChat ==
    /\ bpc = "retrieve" \/ spc = "retrieve"
    /\ AddDocuments

\* one request, to chat or to chat_stream, on a store that holds nothing yet
InitChat ==
    /\ query \in QueryTexts
    /\ context_chunks = <<>>
    /\ conversation_history = HistoryOf(<<"user", "assistant">>)
    /\ llmFragments \in SeqsUpTo(Fragments \ {<<>>}, MaxFrags)
    /\ bpc \in {"retrieve", "unused"}
    /\ spc = IF bpc = "retrieve" THEN "unused" ELSE "retrieve"
    /\ bsent = <<>>
    /\ bresult = [answer |-> <<>>, sources |-> <<>>, context_used |-> 0]
    /\ ssent = <<>>
    /\ ssources = <<>>
    /\ spos = 0
    /\ yielded = <<>>
    /\ StoreEmpty
    /\ ChunkerIdle
    /\ NoTasks

NextChat ==
    \/ IndexBeforeChat
    \/ ChatRetrieve
    \/ ChatStreamRetrieve
    \/ GenerateAnswer
    \/ GenerateAnswerFails
    \/ StreamStart
    \/ StreamFragment
    \/ StreamFails
    \/ StreamFinish

SpecChat == InitChat /\ [][NextChat]_vars

\* ------------------------------------------------------------------ ingestion
\* ProcessingProgress.stages
Stages ==
    <<"Uploading file", "Extracting text", "Chunking text",
      "Generating embeddings", "Storing in database", "Complete">>

\* temp_path = Config.UPLOADS_PATH / f"temp_{document_id}.pdf"
TempName(d) == "temp_" \o d \o ".pdf"

\* destination = self.uploads_dir / f"{document_id}.pdf"
ArchiveName(d) == d \o ".pdf"

\* pdf_path.stem of the temporary file
TempStem(d) == "temp_" \o d

\* uploaded files: one that cannot be parsed, one whose only page has no text,
\* one untitled with a page of text, one titled with two pages of text
Pdfs ==
    {[readable |-> FALSE, title |-> "", texts |-> <<>>],
     [readable |-> TRUE, title |-> "", texts |-> <<<<>>>>],
     [readable |-> TRUE, title |-> "", texts |-> <<<<"a">>>>],
     [readable |-> TRUE, title |-> "T", texts |-> <<<<"a">>, <<"b">>>>]}

\* PDFParser.extract_text on a readable file
ExtractText(pdf) ==
    [pages |-> PagesOf(pdf.texts),
     metadata |-> [title |-> pdf.title, author |-> ""],
     num_pages |-> Len(pdf.texts)]

\* dict.get(key, default)
DictGet(dict, key, default) == IF key \in DOMAIN dict THEN dict[key] ELSE default

\* mutant: an empty extracted title is replaced by the stem of the file name
DocMetadataOfPdfOrStem(pdf, d) ==
    LET pdf_data == ExtractText(pdf)
    IN  DocMetadata(d, TempName(d),
                    IF pdf_data.metadata.title = "" THEN TempStem(d)
                    ELSE pdf_data.metadata.title,
                    pdf_data.num_pages)

\* process_pdf: doc_metadata of the file saved as temp_{d}.pdf
DocMetadataOfPdf(pdf, d) ==
    LET pdf_data == ExtractText(pdf)
    IN  DocMetadata(d, TempName(d),
                    DictGet(pdf_data.metadata, "title", TempStem(d)),
                    pdf_data.num_pages)

\* process_pdf: chunks = chunk_pages(pages, doc_metadata)
ChunksOfPdf(pdf, d) == ChunkPages(ExtractText(pdf).pages, DocMetadataOfPdf(pdf, d))

\* process_pdf: the result it returns
ResultOf(pdf, d) ==
    [document_id |-> d, filename |-> TempName(d),
     num_pages |-> ExtractText(pdf).num_pages,
     num_chunks |-> Len(ChunksOfPdf(pdf, d)),
     metadata |-> DocMetadataOfPdf(pdf, d),
     collection |-> "documents", status |-> "success"]

\* int((self.current_stage / len(self.stages)) * 100)
ProgressOf(stage) == (stage * 100) \div Len(Stages)

Min(a, b) == IF a < b THEN a ELSE b

\* ProcessingProgress.update_status
StatusRecord(st, message, progress, stage) ==
    [status |-> st, message |-> message, progress |-> progress,
     current_stage |-> Stages[Min(stage, Len(Stages) - 1) + 1]]

\* ProcessingProgress.next_stage for task t, then control moves to pc
NextStage(t, message, pc) ==
    /\ tstage' = [tstage EXCEPT ![t] = @ + 1]
    /\ status' = [status EXCEPT ![t] =
                     StatusRecord("processing", message, ProgressOf(tstage[t] + 1), tstage[t] + 1)]
    /\ tpc' = [tpc EXCEPT ![t] = pc]

\* upload_document: draws the ids, saves the temporary file, schedules the task
Upload(t) ==
    /\ tpc[t] = "new"
    /\ \E d \in Docs \ {tdoc[u] : u \in Tasks}, pdf \in Pdfs :
          /\ tdoc' = [tdoc EXCEPT ![t] = d]
          /\ tpdf' = [tpdf EXCEPT ![t] = pdf]
          /\ files' = files \cup {TempName(d)}
          /\ collections' = collections
          /\ index' = index
          /\ last' = Call("upload", "", d, None, 0, FALSE, FALSE, <<>>)
    /\ tpc' = [tpc EXCEPT ![t] = "queued"]
    /\ UNCHANGED <<tstage, status, tfailedAt, tindexed, twrote, ragVars, chunkVars>>

\* process_pdf_background: ProcessingProgress(task_id), first next_stage
BgBegin(t) ==
    /\ tpc[t] = "queued"
    /\ NextStage(t, "File uploaded successfully", "stage1")
    /\ UNCHANGED <<tdoc, tpdf, tfailedAt, tindexed, twrote, storeVars, ragVars, chunkVars>>

BgStage2(t) ==
    /\ tpc[t] = "stage1"
    /\ NextStage(t, "Extracting text from PDF...", "stage2")
    /\ UNCHANGED <<tdoc, tpdf, tfailedAt, tindexed, twrote, storeVars, ragVars, chunkVars>>

BgStage3(t) ==
    /\ tpc[t] = "stage2"
    /\ NextStage(t, "Chunking text for processing...", "stage3")
    /\ UNCHANGED <<tdoc, tpdf, tfailedAt, tindexed, twrote, storeVars, ragVars, chunkVars>>

\* the fourth next_stage, then process_pdf starts in a worker thread
BgStage4(t) ==
    /\ tpc[t] = "stage3"
    /\ NextStage(t, "Generating embeddings...", "extract")
    /\ UNCHANGED <<tdoc, tpdf, tfailedAt, tindexed, twrote, storeVars, ragVars, chunkVars>>

\* process_pdf, steps 1 and 2: extract_text (raises on a missing or unreadable
\* file), doc_metadata, chunk_pages
P_Extract(t) ==
    /\ tpc[t] = "extract"
    /\ IF TempName(tdoc[t]) \in files /\ tpdf[t].readable
       THEN /\ tpc' = [tpc EXCEPT ![t] = "index"]
            /\ tfailedAt' = tfailedAt
       ELSE /\ tpc' = [tpc EXCEPT ![t] = "error"]
            /\ tfailedAt' = [tfailedAt EXCEPT ![t] = "extract"]
    /\ UNCHANGED <<tdoc, tpdf, tstage, status, tindexed, twrote, storeVars, ragVars, chunkVars>>

\* mutant: the archive copy is made before the passages are indexed
P_IndexAfterCopy(t) ==
    /\ tpc[t] = "index"
    /\ \E fail \in BOOLEAN :
          /\ collections' = collections \cup {"documents"}
          /\ index' = IF AddRaises(ChunksOfPdf(tpdf[t], tdoc[t]), fail) THEN index
                      ELSE [index EXCEPT !["documents"] =
                               AfterAdd(@, PassagesOf(ChunksOfPdf(tpdf[t], tdoc[t]), tdoc[t]))]
          /\ files' = files \cup {ArchiveName(tdoc[t])}
          /\ last' = Call("add_documents", "documents", tdoc[t], None, 0,
                          AddRaises(ChunksOfPdf(tpdf[t], tdoc[t]), fail), fail, <<>>)
    /\ twrote' = [twrote EXCEPT ![t] = TRUE]
    /\ IF last'.raised
       THEN /\ tpc' = [tpc EXCEPT ![t] = "error"]
            /\ tfailedAt' = [tfailedAt EXCEPT ![t] = "index"]
            /\ tindexed' = tindexed
       ELSE /\ tpc' = [tpc EXCEPT ![t] = "copy"]
            /\ tfailedAt' = tfailedAt
            /\ tindexed' = [tindexed EXCEPT ![t] = TRUE]
    /\ UNCHANGED <<tdoc, tpdf, tstage, status, ragVars, chunkVars>>

\* process_pdf, step 3: add_documents on the default collection
P_Index(t) ==
    /\ tpc[t] = "index"
    /\ \E fail \in BOOLEAN :
          VS_AddDocuments("documents", ChunksOfPdf(tpdf[t], tdoc[t]), tdoc[t], fail)
    /\ IF last'.raised
       THEN /\ tpc' = [tpc EXCEPT ![t] = "error"]
            /\ tfailedAt' = [tfailedAt EXCEPT ![t] = "index"]
            /\ tindexed' = tindexed
       ELSE /\ tpc' = [tpc EXCEPT ![t] = "copy"]
            /\ tfailedAt' = tfailedAt
            /\ tindexed' = [tindexed EXCEPT ![t] = TRUE]
    /\ UNCHANGED <<tdoc, tpdf, tstage, status, twrote, ragVars, chunkVars>>

\* process_pdf, step 4: shutil.copy2 to the archive name. It succeeds, or raises
\* before creating the destination, or raises leaving a destination file behind
P_Copy(t) ==
    /\ tpc[t] = "copy"
    /\ collections' = collections
    /\ index' = index
    /\ IF TempName(tdoc[t]) # ArchiveName(tdoc[t])
       THEN \E outcome \in {"copied", "raised", "raised_partial"} :
               /\ files' = IF outcome = "raised" THEN files
                           ELSE files \cup {ArchiveName(tdoc[t])}
               /\ twrote' = [twrote EXCEPT ![t] = outcome # "raised"]
               /\ last' = Call("copy", "", tdoc[t], None, 0, outcome # "copied",
                               outcome # "copied", <<>>)
       ELSE /\ files' = files
            /\ twrote' = twrote
            /\ last' = Call("copy", "", tdoc[t], None, 0, FALSE, FALSE, <<>>)
    /\ IF last'.raised
       THEN /\ tpc' = [tpc EXCEPT ![t] = "error"]
            /\ tfailedAt' = [tfailedAt EXCEPT ![t] = "copy"]
       ELSE /\ tpc' = [tpc EXCEPT ![t] = "finalize"]
            /\ tfailedAt' = tfailedAt
    /\ UNCHANGED <<tdoc, tpdf, tstage, status, tindexed, ragVars, chunkVars>>

\* process_pdf returned: the fifth next_stage
BgStage5(t) ==
    /\ tpc[t] = "finalize"
    /\ NextStage(t, "Finalizing...", "complete")
    /\ UNCHANGED <<tdoc, tpdf, tfailedAt, tindexed, twrote, storeVars, ragVars, chunkVars>>

\* ProcessingProgress.complete(result)
BgComplete(t) ==
    /\ tpc[t] = "complete"
    /\ tstage' = [tstage EXCEPT ![t] = Len(Stages) - 1]
    /\ status' = [status EXCEPT ![t] =
                     [status |-> "completed", message |-> "Processing complete",
                      progress |-> 100, current_stage |-> "Complete",
                      result |-> ResultOf(tpdf[t], tdoc[t])]]
    /\ tpc' = [tpc EXCEPT ![t] = "done"]
    /\ UNCHANGED <<tdoc, tpdf, tfailedAt, tindexed, twrote, storeVars, ragVars, chunkVars>>

\* mutant: the error record restarts the progress at 0
BgErrorProgressZero(t) ==
    /\ tpc[t] = "error"
    /\ status' = [status EXCEPT ![t] =
                     [status |-> "failed", message |-> "Error processing PDF",
                      progress |-> 0,
                      current_stage |-> Stages[tstage[t] + 1]]]
    /\ files' = files \ {TempName(tdoc[t])}
    /\ collections' = collections
    /\ index' = index
    /\ last' = Call("cleanup", "", tdoc[t], None, 0, FALSE, FALSE, <<>>)
    /\ tpc' = [tpc EXCEPT ![t] = "failed"]
    /\ UNCHANGED <<tdoc, tpdf, tstage, tfailedAt, tindexed, twrote, ragVars, chunkVars>>

\* the except clause: ProcessingProgress.error, then the temporary file is removed
BgError(t) ==
    /\ tpc[t] = "error"
    /\ status' = [status EXCEPT ![t] =
                     [status |-> "failed", message |-> "Error processing PDF",
                      progress |-> ProgressOf(tstage[t]),
                      current_stage |-> Stages[tstage[t] + 1]]]
    /\ files' = files \ {TempName(tdoc[t])}
    /\ collections' = collections
    /\ index' = index
    /\ last' = Call("cleanup", "", tdoc[t], None, 0, FALSE, FALSE, <<>>)
    /\ tpc' = [tpc EXCEPT ![t] = "failed"]
    /\ UNCHANGED <<tdoc, tpdf, tstage, tfailedAt, tindexed, twrote, ragVars, chunkVars>>

\* mutant: the archived file is only removed when the index delete went through
P_DeleteDocumentStopOnFailure(d, fail) ==
    /\ collections' = collections
    /\ index' = IF "documents" \in collections /\ ~fail
                THEN [index EXCEPT !["documents"] = AfterDelete(@, d)]
                ELSE index
    /\ files' = IF "documents" \in collections /\ fail THEN files
                ELSE files \ {ArchiveName(d)}
    /\ last' = Call("delete_document", "documents", d, None, 0, FALSE,
                    "documents" \in collections /\ fail,
                    [document_id |-> d, status |-> "deleted"])

\* PDFProcessor.delete_document(document_id): VectorStore.delete_document on the
\* default collection, then the archived file is unlinked if it exists
P_DeleteDocument(d, fail) ==
    /\ collections' = collections
    /\ index' = IF "documents" \in collections /\ ~fail
                THEN [index EXCEPT !["documents"] = AfterDelete(@, d)]
                ELSE index
    /\ files' = files \ {ArchiveName(d)}
    /\ last' = Call("delete_document", "documents", d, None, 0, FALSE,
                    "documents" \in collections /\ fail,
                    [document_id |-> d, status |-> "deleted"])

\* DELETE /api/documents/{document_id}
DeleteDocument ==
    /\ \E d \in Docs, fail \in BOOLEAN : P_DeleteDocument(d, fail)
    /\ UNCHANGED <<ragVars, chunkVars, taskVars>>

InitIngest ==
    /\ RagUnused
    /\ StoreEmpty
    /\ ChunkerIdle
    /\ NoTasks

NextIngest ==
    \/ \E t \in Tasks : Upload(t)
    \/ \E t \in Tasks : BgBegin(t)
    \/ \E t \in Tasks : BgStage2(t)
    \/ \E t \in Tasks : BgStage3(t)
    \/ \E t \in Tasks : BgStage4(t)
    \/ \E t \in Tasks : P_Extract(t)
    \/ \E t \in Tasks : P_Index(t)
    \/ \E t \in Tasks : P_Copy(t)
    \/ \E t \in Tasks : BgStage5(t)
    \/ \E t \in Tasks : BgComplete(t)
    \/ \E t \in Tasks : BgError(t)
    \/ DeleteDocument

SpecIngest == InitIngest /\ [][NextIngest]_vars

\* the positions of a background task
TaskPcs ==
    {"new", "queued", "stage1", "stage2", "stage3", "extract", "index", "copy",
     "finalize", "complete", "error", "done", "failed"}

\* the background task t takes a step: the coroutine process_pdf_background or
\* the worker thread running process_pdf for it moves on (every position between
\* "queued" and the two final ones has a step to take)
TaskMoves(t) ==
    /\ tpc[t] \notin {"new", "done", "failed"}
    /\ tpc' \in {[tpc EXCEPT ![t] = pc] : pc \in TaskPcs \ {tpc[t]}}

\* uploads and their background tasks, with every failure of process_pdf, and
\* no deletion
NextProgress ==
    \/ \E t \in Tasks : Upload(t)
    \/ \E t \in Tasks : BgBegin(t)
    \/ \E t \in Tasks : BgStage2(t)
    \/ \E t \in Tasks : BgStage3(t)
    \/ \E t \in Tasks : BgStage4(t)
    \/ \E t \in Tasks : P_Extract(t)
    \/ \E t \in Tasks : P_Index(t)
    \/ \E t \in Tasks : P_Copy(t)
    \/ \E t \in Tasks : BgStage5(t)
    \/ \E t \in Tasks : BgComplete(t)
    \/ \E t \in Tasks : BgError(t)

\* the event loop runs every scheduled background task, its sleeps end, and the
\* worker thread of process_pdf returns or raises
SpecProgress ==
    InitIngest /\ [][NextProgress]_vars /\ \A t \in Tasks : WF_tpc(TaskMoves(t))

\* ------------------------------------------------------------ concurrent ingestions
\* add_documents in a worker thread, first half: create_collection, which is
\* client.get_or_create_collection
P_IndexCreate(t) ==
    /\ tpc[t] = "index"
    /\ collections' = collections \cup {"documents"}
    /\ index' = index
    /\ files' = files
    /\ last' = Call("create_collection", "documents", tdoc[t], None, 0, FALSE, FALSE, <<>>)
    /\ tpc' = [tpc EXCEPT ![t] = "index_add"]
    /\ UNCHANGED <<tdoc, tpdf, tstage, status, tfailedAt, tindexed, twrote, ragVars, chunkVars>>

\* add_documents in a worker thread, second half: collection.add on the batch
\* (an empty batch is rejected)
P_IndexAdd(t) ==
    /\ tpc[t] = "index_add"
    /\ LET chunks == ChunksOfPdf(tpdf[t], tdoc[t])
       IN  /\ collections' = collections
           /\ index' = IF AddRaises(chunks, FALSE) THEN index
                       ELSE [index EXCEPT !["documents"] =
                                AfterAdd(@, PassagesOf(chunks, tdoc[t]))]
           /\ files' = files
           /\ last' = Call("add_documents", "documents", tdoc[t], None, 0,
                           AddRaises(chunks, FALSE), FALSE, <<>>)
    /\ IF last'.raised
       THEN /\ tpc' = [tpc EXCEPT ![t] = "error"]
            /\ tfailedAt' = [tfailedAt EXCEPT ![t] = "index"]
            /\ tindexed' = tindexed
       ELSE /\ tpc' = [tpc EXCEPT ![t] = "copy"]
            /\ tfailedAt' = tfailedAt
            /\ tindexed' = [tindexed EXCEPT ![t] = TRUE]
    /\ UNCHANGED <<tdoc, tpdf, tstage, status, twrote, ragVars, chunkVars>>

\* the archive copy when the file system does not fail
P_CopyWorks(t) == P_Copy(t) /\ ~last'.failed

\* uploads whose background tasks interleave step by step; the index and the file
\* system do not fail, and nothing is deleted
NextConcurrent ==
    \/ \E t \in Tasks : Upload(t)
    \/ \E t \in Tasks : BgBegin(t)
    \/ \E t \in Tasks : BgStage2(t)
    \/ \E t \in Tasks : BgStage3(t)
    \/ \E t \in Tasks : BgStage4(t)
    \/ \E t \in Tasks : P_Extract(t)
    \/ \E t \in Tasks : P_IndexCreate(t)
    \/ \E t \in Tasks : P_IndexAdd(t)
    \/ \E t \in Tasks : P_CopyWorks(t)
    \/ \E t \in Tasks : BgStage5(t)
    \/ \E t \in Tasks : BgComplete(t)
    \/ \E t \in Tasks : BgError(t)

SpecConcurrent == InitIngest /\ [][NextConcurrent]_vars

\* ---------------------------------------------------------------- claims C1-C4
IsLast(i) == i = Len(yielded)

\* C1: a fully consumed generate_answer_stream has yielded exactly one element
\* of type "sources", it is the last element, and every element before it has
\* type "content" (also for empty context_chunks and a stub with no fragments).
C1_SourcesLastExactlyOnce ==
    /\ spc = "done" =>
          /\ Len(yielded) >= 1
          /\ yielded[Len(yielded)].type = "sources"
          /\ \A i \in 1..(Len(yielded) - 1) : yielded[i].type = "content"
          /\ Cardinality({i \in 1..Len(yielded) : yielded[i].type = "sources"}) = 1
    /\ spc \in {"streaming", "raised"} =>
          \A i \in 1..Len(yielded) : yielded[i].type = "content"

\* the stream was consumed to its end on an empty context with no content at all
C1_Witness ==
    /\ spc = "done"
    /\ context_chunks = <<>>
    /\ Flatten(llmFragments) = <<>>
    /\ Len(yielded) = 1

\* the data of the content elements of a yielded sequence, in order
ContentData(elems) ==
    LET idx == {i \in 1..Len(elems) : elems[i].type = "content"}
        nth(k) == CHOOSE i \in idx : Cardinality({j \in idx : j < i}) = k - 1
    IN  [k \in 1..Cardinality(idx) |-> elems[nth(k)].data]

\* C2: for the same arguments and the deterministic stub, the concatenation of
\* the streamed content equals the blocking answer, and the final stream element
\* carries the same sources and context_used as the blocking result.
C2_StreamEqualsBlocking ==
    (bpc = "done" /\ spc = "done") =>
        /\ Flatten(ContentData(yielded)) = bresult.answer
        /\ yielded[Len(yielded)].data.sources = bresult.sources
        /\ yielded[Len(yielded)].data.context_used = bresult.context_used

\* both calls completed, with several content elements and a non-empty sources list
C2_Witness ==
    /\ bpc = "done"
    /\ spc = "done"
    /\ Len(yielded) >= 3
    /\ bresult.sources # <<>>
    /\ bresult.answer # <<>>

\* positions of the chunks that open a (document_id, page_number) pair
FirstOccurrences(chunks) ==
    {i \in 1..Len(chunks) :
        /\ chunks[i].page_number # None
        /\ \A j \in 1..(i - 1) :
              ~(chunks[j].document_id = chunks[i].document_id
                /\ chunks[j].page_number = chunks[i].page_number)}

\* sources lists exactly the first occurrences, in their order
IsReconciled(sources, chunks) ==
    LET first == FirstOccurrences(chunks)
    IN  /\ Len(sources) = Cardinality(first)
        /\ \A k \in 1..Len(sources) :
              \E i \in first :
                 /\ Cardinality({j \in first : j < i}) = k - 1
                 /\ sources[k].document_id = chunks[i].document_id
                 /\ sources[k].page_number = chunks[i].page_number
                 /\ sources[k].similarity = chunks[i].similarity
                 /\ sources[k].filename = chunks[i].filename

\* C3: the sources of generate_answer and of generate_answer_stream hold exactly
\* one entry per distinct (document_id, page_number) among the chunks with a page
\* number, taken from the first such chunk, in order of first occurrence; chunks
\* without a page number contribute nothing.
C3_SourcesFirstOccurrence ==
    /\ bpc = "done" => IsReconciled(bresult.sources, context_chunks)
    /\ spc # "idle" => IsReconciled(ssources, context_chunks)
    /\ spc = "done" => IsReconciled(yielded[Len(yielded)].data.sources, context_chunks)

\* a repeated pair, a second pair and a chunk without page number were reconciled
C3_Witness ==
    /\ bpc = "done"
    /\ spc = "done"
    /\ Len(context_chunks) = 3
    /\ Len(bresult.sources) = 1
    /\ \E i \in 1..3 : context_chunks[i].page_number = None
    /\ \E i, j \in 1..3 : i < j /\ SourceKey(context_chunks[i]) = SourceKey(context_chunks[j])
                          /\ context_chunks[i].page_number # None

GeneratorRole(role) == IF role = "user" THEN "human" ELSE "ai"

\* system message, the last min(6, len) history messages, one final user message
IsExpectedMessages(messages) ==
    LET h == conversation_history
        n == IF Len(h) < HistoryWindow THEN Len(h) ELSE HistoryWindow
    IN  /\ Len(messages) = n + 2
        /\ Len(messages) <= 8
        /\ messages[1] = [role |-> "system", content |-> SystemPrompt]
        /\ \A k \in 1..n :
              /\ messages[1 + k].role = GeneratorRole(h[Len(h) - n + k].role)
              /\ messages[1 + k].content = h[Len(h) - n + k].content
        /\ messages[n + 2].role = "human"
        /\ messages[n + 2].content = Prompt(FormatContext(context_chunks), query)
        /\ Cardinality({i \in 1..Len(messages) : messages[i].role = "system"}) = 1

\* C4: generate_answer and generate_answer_stream send the same message sequence:
\* one system message, then the last min(6, len(history)) history messages in order
\* with their roles, then one user message with the formatted context and the
\* question; never more than 8 messages.
C4_MessageSequence ==
    /\ bpc # "idle" => IsExpectedMessages(bsent)
    /\ spc # "idle" => IsExpectedMessages(ssent)
    /\ (bpc # "idle" /\ spc # "idle") => bsent = ssent

\* both calls built their messages from a history longer than the window
C4_Witness ==
    /\ bpc # "idle"
    /\ spc # "idle"
    /\ Len(conversation_history) = 7
    /\ Len(bsent) = 8
    /\ conversation_history[1].role # conversation_history[2].role

\* ------------------------------------------------------------ claims C5, C6, C8
\* C5: process_pdf writes the archive copy only after add_documents has returned:
\* an execution in which extraction, chunking or add_documents failed has written
\* no archived file "{document_id}.pdf".
C5_ArchiveAfterIndexing ==
    \A t \in Tasks :
       /\ twrote[t] => tindexed[t]
       /\ tfailedAt[t] \in {"extract", "index"} =>
             ~twrote[t] /\ ArchiveName(tdoc[t]) \notin files

\* add_documents raised in an execution that had parsed and chunked its file, the
\* failure was reported, and no archive file exists
C5_Witness ==
    \E t \in Tasks :
       /\ tfailedAt[t] = "index"
       /\ tpc[t] = "failed"
       /\ tpdf[t].readable
       /\ ArchiveName(tdoc[t]) \notin files

HasPassages(d) == \E p \in index["documents"] : p.metadata.document_id = d

\* C6: whenever process_pdf fails at any step, the archive copy included, the
\* ingestion reported as failed has left no passage of the document in the
\* collection and no archived file in storage.
C6_AllOrNothing ==
    \A t \in Tasks :
       (tpc[t] = "failed" /\ status[t].status = "failed") =>
          /\ ~HasPassages(tdoc[t])
          /\ ArchiveName(tdoc[t]) \notin files

\* a second delete_document(d) right after a delete_document(d)
SecondDeletion ==
    /\ last.op = "delete_document"
    /\ last.after.op = "delete_document"
    /\ last.after.doc = last.doc

\* what every delete_document call does, whatever the index does
DeletionBestEffort ==
    last.op = "delete_document" =>
        /\ ~last.raised
        /\ last.out = [document_id |-> last.doc, status |-> "deleted"]
        /\ ArchiveName(last.doc) \notin files
        /\ last.added = {}
        /\ last.filesAdded = {}

DeletionIsScoped ==
    last.op = "vs_delete_document" =>
        /\ last.added = {}
        /\ last.created = {}
        /\ \A e \in last.removed :
              e[1] = last.coll /\ e[2].metadata.document_id = last.doc

\* a returned query on document d right after delete_document(collection, d)
QueryFollowsDeletion ==
    /\ last.op = "query"
    /\ ~last.raised
    /\ last.after.op = "vs_delete_document"
    /\ last.after.coll = last.coll
    /\ last.filter = Some(last.after.doc)

C9_MissingCollection ==
    (last.op \in {"query", "count", "vs_delete_document"} /\ ~last.existed) =>
        /\ ~last.raised
        /\ last.created = {}
        /\ last.coll \notin collections
        /\ last.removed = {}
        /\ last.added = {}
        /\ last.op = "query" => last.out = EmptyResult
        /\ last.op = "count" => last.out = 0

\* a query on a missing collection while another collection holds passages
C9_Witness ==
    /\ last.op = "query"
    /\ ~last.existed
    /\ last.out = EmptyResult
    /\ Stored(index) # {}

\* number of pieces the pages before page j contribute
RECURSIVE PiecesBefore(_)
PiecesBefore(j) ==
    IF j <= 1 THEN 0 ELSE PiecesBefore(j - 1) + Len(SplitText(cpages[j - 1].text))

\* the page the k-th passage (k from 0) was split from
PageOfPassage(k) ==
    CHOOSE j \in 1..Len(cpages) :
        PiecesBefore(j) <= k /\ k < PiecesBefore(j) + Len(SplitText(cpages[j].text))

\* C10: the k-th passage of chunk_pages (k from 0 over the whole document) has
\* chunk_id = k and the page number of the page it was split from, page numbers
\* do not decrease, and add_documents stores it under "{document_id}_chunk_{k}"
\* with chunk_index = k.
C10_GlobalChunkIndex ==
    /\ cpc # "idle" =>
          /\ Len(cchunks) = PiecesBefore(Len(cpages) + 1)
          /\ \A pos \in 1..Len(cchunks) :
                /\ cchunks[pos].metadata.chunk_id = pos - 1
                /\ cchunks[pos].metadata.page_number = cpages[PageOfPassage(pos - 1)].page_number
                /\ cchunks[pos].text =
                      SplitText(cpages[PageOfPassage(pos - 1)].text)
                          [pos - PiecesBefore(PageOfPassage(pos - 1))]
          /\ \A pos \in 1..(Len(cchunks) - 1) :
                cchunks[pos].metadata.page_number <= cchunks[pos + 1].metadata.page_number
    /\ cpc = "stored" =>
          /\ Cardinality(index[last.coll]) = Len(cchunks)
          /\ \A pos \in 1..Len(cchunks) :
                \E p \in index[last.coll] :
                   /\ p.id = ChunkIdOf(last.doc, pos - 1)
                   /\ p.metadata.chunk_index = pos - 1
                   /\ p.metadata.chunk_id = pos - 1
                   /\ p.metadata.document_id = last.doc
                   /\ p.metadata.page_number = cchunks[pos].metadata.page_number
                   /\ p.document = cchunks[pos].text

\* a stored document whose first page gave two passages, followed by an empty
\* page that gave none and a third page that gave the passage number 2
C10_Witness ==
    /\ cpc = "stored"
    /\ Len(cpages) = 3
    /\ cpages[2].text = <<>>
    /\ Len(cchunks) >= 3
    /\ cchunks[2].metadata.page_number = 1
    /\ cchunks[3].metadata.page_number = 3
    /\ \E p \in index[last.coll] :
          p.id = ChunkIdOf(last.doc, 2) /\ p.metadata.page_number = 3

\* ------------------------------------------------------------ claim C11
\* chunk_pages was called on one page whose text is no longer than the chunk size
ShortSinglePage ==
    /\ cpc # "idle"
    /\ Len(cpages) = 1
    /\ Len(cpages[1].text) <= CHUNK_SIZE

\* s is t without its leading and trailing whitespace
IsStripped(s, t) ==
    \E i \in 1..(Len(t) + 1), j \in 0..Len(t) :
       /\ s = SubSeq(t, i, j)
       /\ \A k \in 1..(i - 1) : t[k] \in Whitespace
       /\ \A k \in (j + 1)..Len(t) : t[k] \in Whitespace
       /\ s # <<>> => (s[1] \notin Whitespace /\ s[Len(s)] \notin Whitespace)

\* C11 as stated: for every page P with len(P.text) <= chunk size,
\* chunk_pages([P], md) returns exactly one passage, whose text equals P.text.
C11_ShortPageOnePassage ==
    ShortSinglePage =>
        /\ Len(cchunks) = 1
        /\ cchunks[1].text = cpages[1].text

\* C11 amended: for every page P with len(P.text) <= chunk size, chunk_pages([P], md)
\* returns no passage when P.text is empty or all whitespace, and otherwise exactly
\* one passage, whose text is P.text without its leading and trailing whitespace
\* (so equal to P.text when P.text has none).
C11_ShortPageStripped ==
    ShortSinglePage =>
        IF \A k \in 1..Len(cpages[1].text) : cpages[1].text[k] \in Whitespace
        THEN cchunks = <<>>
        ELSE /\ Len(cchunks) = 1
             /\ cchunks[1].text # <<>>
             /\ IsStripped(cchunks[1].text, cpages[1].text)
             /\ cchunks[1].metadata.page_number = cpages[1].page_number

\* a page of exactly the chunk size, with a separator inside, gave one passage,
\* which is the page text short of its leading blank
C11_Witness ==
    /\ ShortSinglePage
    /\ Len(cpages[1].text) = CHUNK_SIZE
    /\ Len(cchunks) = 1
    /\ cchunks[1].text = Tail(cpages[1].text)

\* ------------------------------------------------------------ claim C12
\* process_pdf has just indexed the passages of cchunks without add_documents raising
JustIndexed ==
    /\ cpc = "stored"
    /\ last.op = "add_documents"
    /\ ~last.raised

\* the ids, texts and metadata of the batch just handed to collection.add
Batch == {<<last.coll, p>> : p \in PassagesOf(cchunks, last.doc)}

\* no two stored passages of a collection share an id
IdsUnique ==
    \A c \in CollNames : \A p, q \in index[c] : p.id = q.id => p = q

\* C12 as stated: add_documents upserts, so after a call that did not raise every
\* passage of the batch is stored under its id "{d}_chunk_{i}" with the text and
\* metadata of the batch, and a second ingestion of the same chunks changes
\* neither the passage set nor the count.
C12_AddUpserts ==
    /\ IdsUnique
    /\ JustIndexed => Batch \subseteq Stored(index)
    /\ (JustIndexed /\ Batch \cap last.added = {}) => last.removed = {}

\* what add_documents does instead (collection.add): a passage whose id is
\* already stored keeps its text and metadata, only passages with new ids are
\* stored, and a second ingestion of the same chunks changes nothing
AddKeepsExisting ==
    /\ IdsUnique
    /\ JustIndexed =>
          /\ last.removed = {}
          /\ last.added \subseteq Batch
          /\ \A b \in Batch :
                \/ b \in last.added
                \/ \E q \in index[last.coll] :
                      q.id = b[2].id /\ <<last.coll, q>> \notin last.added
    /\ (JustIndexed /\ Batch \subseteq (Stored(index) \ last.added)) =>
          last.added = {}

\* the same two-passage document was indexed again: all its passages were already
\* stored, and the collection holds the same two passages
SameChunksTwice ==
    /\ JustIndexed
    /\ Len(cchunks) = 2
    /\ last.added = {}
    /\ Batch = Stored(index)
    /\ Cardinality(index[last.coll]) = 2

\* ------------------------------------------------------------ claim C13
\* the passages of document d in the default collection
PassagesOfDoc(d) == {p \in index["documents"] : p.metadata.document_id = d}

\* C13: the title in the metadata built by process_pdf is the extracted title when
\* the PDF has one and otherwise the stem of the file name: for a PDF whose
\* extracted title is empty every indexed passage and the returned result carry
\* title = file name stem; document_id is the id given to process_pdf.
C13_TitleOrStem ==
    \A t \in Tasks :
       tindexed[t] =>
          LET title == IF tpdf[t].title = "" THEN TempStem(tdoc[t]) ELSE tpdf[t].title
          IN  /\ \A p \in PassagesOfDoc(tdoc[t]) : p.metadata.title = title
              /\ tpc[t] = "done" =>
                    /\ status[t].result.metadata.title = title
                    /\ status[t].result.document_id = tdoc[t]

\* ------------------------------------------------------------ claim C14
\* retrieval returned normally with nothing: the collection was never created, or
\* nothing matched the filter, or the collection is empty
EmptyRetrieval ==
    /\ last.op = "query"
    /\ ~last.raised
    /\ last.out.documents = <<>>

\* the content of the last message handed to the LLM
LastContent(messages) == messages[Len(messages)].content

\* what chat and chat_stream do after a retrieval that returned nothing
GeneratesOnEmptyContext ==
    EmptyRetrieval =>
        /\ context_chunks = <<>>
        /\ bpc \in {"unused", "idle", "done", "raised"}
        /\ spc \in {"unused", "idle", "streaming", "done", "raised"}
        /\ bpc \in {"done", "raised"} =>
              LastContent(bsent) = Prompt(NoContext, query)
        /\ bpc = "done" =>
              bresult = [answer |-> LLMInvoke(bsent), sources |-> <<>>, context_used |-> 0]
        /\ spc \in {"streaming", "done", "raised"} =>
              LastContent(ssent) = Prompt(NoContext, query)
        /\ spc = "done" =>
              /\ yielded[Len(yielded)] =
                    [type |-> "sources", data |-> [sources |-> <<>>, context_used |-> 0]]
              /\ \A i \in 1..(Len(yielded) - 1) : yielded[i].type = "content"

\* C14 as stated: in chat and chat_stream neither a retrieval failure nor an empty
\* retrieval result is an error: generation is still invoked, with the sentinel
\* "No relevant context found in the documents." as context, and the call
\* completes with an answer, no sources and context_used = 0; only a generation
\* failure propagates.
C14_RetrievalNeverAnError ==
    /\ GeneratesOnEmptyContext
    /\ bpc # "retrieval_raised"
    /\ spc # "retrieval_raised"

\* C14 amended: an empty retrieval result is not an error and generation runs on
\* the sentinel context, but a retrieval failure (the index query raising on an
\* existing collection) propagates to the caller before generation is invoked.
C14_EmptyRetrievalGenerates ==
    /\ GeneratesOnEmptyContext
    /\ (bpc = "retrieval_raised" \/ spc = "retrieval_raised") =>
          /\ last.op = "query"
          /\ last.failed
          /\ last.existed
          /\ bsent = <<>>
          /\ ssent = <<>>
          /\ yielded = <<>>
    /\ (bpc = "raised" \/ spc = "raised") => (last.op = "query" => ~last.raised)

\* chat with a document filter that matches nothing in a collection holding
\* another document's passages: it returned an answer generated on the sentinel
C14_Witness ==
    /\ EmptyRetrieval
    /\ last.existed
    /\ last.filter # None
    /\ index[last.coll] # {}
    /\ bpc = "done"
    /\ bresult.answer # <<>>
    /\ bresult.context_used = 0

\* ------------------------------------------------------------ claim C15
\* the passages process_pdf hands to the index for task t
PassagesOfTask(t) == PassagesOf(ChunksOfPdf(tpdf[t], tdoc[t]), tdoc[t])

\* a task whose file can be parsed and gives at least one passage
Ingestible(t) ==
    /\ tpc[t] # "new"
    /\ tpdf[t].readable
    /\ ChunksOfPdf(tpdf[t], tdoc[t]) # <<>>

\* C15: two process_pdf executions with distinct document_ids that run
\* concurrently on the same collection, created or not, both succeed under every
\* interleaving, share no passage id, and leave in the collection exactly the
\* union of the two documents' passages, each with its own document_id.
C15_ConcurrentIngestions ==
    /\ \A t \in Tasks : Ingestible(t) => tpc[t] \notin {"error", "failed"}
    /\ \A t, u \in Tasks :
          (t # u /\ tpc[t] # "new" /\ tpc[u] # "new") =>
             /\ tdoc[t] # tdoc[u]
             /\ {p.id : p \in PassagesOfTask(t)} \cap {p.id : p \in PassagesOfTask(u)} = {}
    /\ index["documents"] = UNION {PassagesOfTask(t) : t \in {u \in Tasks : tindexed[u]}}
    /\ \A p \in index["documents"] :
          \E t \in Tasks :
             /\ tindexed[t]
             /\ p \in PassagesOfTask(t)
             /\ p.metadata.document_id = tdoc[t]
    /\ IdsUnique

\* both ingestions of files with text completed, and the collection, which did not
\* exist before, holds the passages of the two documents
C15_Witness ==
    /\ \A t \in Tasks : Ingestible(t) /\ tpc[t] = "done" /\ status[t].status = "completed"
    /\ Cardinality(index["documents"]) =
          Len(ChunksOfPdf(tpdf["t1"], tdoc["t1"])) + Len(ChunksOfPdf(tpdf["t2"], tdoc["t2"]))
    /\ \E p, q \in index["documents"] : p.metadata.document_id # q.metadata.document_id

\* ------------------------------------------------------------ claim C16
\* ProcessingProgress(task_id) has recorded a status for task t
HasStatus(t) == tpc[t] \notin {"new", "queued"}

\* the recorded status of task t is terminal
IsTerminal(t) == HasStatus(t) /\ status[t].status \in {"completed", "failed"}

\* the recorded status of every task is well formed
StatusWellFormed ==
    \A t \in Tasks :
       /\ tstage[t] \in 0..(Len(Stages) - 1)
       /\ HasStatus(t) =>
             /\ status[t].progress \in 0..100
             /\ status[t].current_stage \in {Stages[i] : i \in 1..Len(Stages)}
             /\ status[t].message # ""
       /\ tpc[t] = "failed" => (tfailedAt[t] # "" /\ status[t].status = "failed")
       /\ tpc[t] = "done" => (tfailedAt[t] = "" /\ status[t].status = "completed")
       /\ (HasStatus(t) /\ tpc[t] \notin {"failed", "done"}) =>
             status[t].status = "processing"

\* one step never lowers the progress of a task nor changes a terminal status
StatusMonotone ==
    \A t \in Tasks :
       HasStatus(t) =>
          /\ status'[t].progress >= status[t].progress
          /\ IsTerminal(t) => status'[t] = status[t]

\* C16: the status of every background ingestion task eventually becomes
\* "completed" or "failed"; a failure of process_pdf always ends in "failed" with
\* a message, the error handler finding a valid stage index; the progress stays
\* within 0..100 and never decreases; a terminal status never changes again.
C16_StatusTerminates ==
    /\ []StatusWellFormed
    /\ [][StatusMonotone]_vars
    /\ \A t \in Tasks : (tpc[t] = "queued") ~> IsTerminal(t)
    /\ \A t \in Tasks :
          (tfailedAt[t] # "") ~> (HasStatus(t) /\ status[t].status = "failed")

\* one task failed in the archive copy and is reported failed at the progress it
\* had reached, the other one is reported completed at 100
C16_Witness ==
    \E t, u \in Tasks :
       /\ tfailedAt[t] = "copy"
       /\ tpc[t] = "failed"
       /\ status[t].status = "failed"
       /\ status[t].progress = ProgressOf(4)
       /\ tpc[u] = "done"
       /\ status[u].status = "completed"
       /\ status[u].progress = 100

NextRag ==
    \/ GenerateAnswer
    \/ GenerateAnswerFails
    \/ StreamStart
    \/ StreamFragment
    \/ StreamFails
    \/ StreamFinish

SpecStream == InitStream /\ [][NextRag]_vars

SpecMessages == InitMessages /\ [][NextRag]_vars

====
